---- MODULE Spec2Model ----
(***************************************************************************)
(* MarshEvolver (pymarshmorpho2d/marsh_evolver.py): a Landlab component    *)
(* that advances mean sea level and derives water depth, vegetation and    *)
(* Manning roughness on the nodes of a grid.                               *)
(*                                                                         *)
(* Numbers.  A Python float is modelled as an exact rational <<n, d>> in   *)
(* lowest terms with d > 0.  The three results a numpy division by zero    *)
(* can produce are the pairs with d = 0: <<0,0>> is NaN, <<1,0>> is +inf   *)
(* and <<-1,0>> is -inf.                                                   *)
(*                                                                         *)
(* Arrays.  A numpy array is a function from Nodes to values.  The grid    *)
(* holds one array per field name (at_node).  Every attribute of the       *)
(* component that refers to an array (self._water_depth, ...) is either    *)
(* still bound to the grid's array of its field, or has been rebound by an *)
(* assignment "self._x = <expression>" to a fresh array of its own.        *)
(***************************************************************************)
EXTENDS Integers, FiniteSets, Sequences, TLC

\* ------------------------------------------------------------------ bounds

\* Number of grid nodes.
NumNodes == 2

\* run_one_step is taken only while |mean sea level| stays within this many
\* metres (the code's accumulator is unbounded).
MaxSeaLevel == 1

Nodes == 1..NumNodes

\* ------------------------------------------------- exact float arithmetic

Abs(x) == IF x < 0 THEN -x ELSE x

RECURSIVE GCD(_, _)
GCD(a, b) == IF b = 0 THEN a ELSE GCD(b, a % b)

\* The rational n/d (d # 0) in lowest terms with a positive denominator.
Rat(n, d) ==
    LET s == IF d < 0 THEN -1 ELSE 1
        g == GCD(Abs(n), Abs(d))
    IN  << (s * n) \div g, (s * d) \div g >>

Zero == << 0, 1 >>
NaN == << 0, 0 >>
PosInf == << 1, 0 >>
NegInf == << -1, 0 >>

IsFinite(x) == x[2] > 0

Neg(x) == << -x[1], x[2] >>
Add(x, y) == Rat(x[1] * y[2] + y[1] * x[2], x[2] * y[2])
Sub(x, y) == Add(x, Neg(y))

\* Product of two finite values; common factors are cancelled crosswise
\* before multiplying.
Mul(x, y) ==
    LET g1 == GCD(Abs(x[1]), y[2])
        g2 == GCD(Abs(y[1]), x[2])
    IN  Rat((x[1] \div g1) * (y[1] \div g2), (x[2] \div g2) * (y[2] \div g1))

\* numpy's array / scalar for finite operands: a zero divisor gives NaN for
\* 0/0 and a signed infinity otherwise (a RuntimeWarning, not an exception).
Div(x, y) ==
    IF y[1] = 0
    THEN IF x[1] = 0 THEN NaN ELSE IF x[1] > 0 THEN PosInf ELSE NegInf
    ELSE Mul(x, Rat(y[2], y[1]))

\* Comparisons of finite values.
Lt(x, y) == x[1] * y[2] < y[1] * x[2]
Gt(x, y) == Lt(y, x)
Leq(x, y) == ~Lt(y, x)

\* np.maximum on finite values.
Maximum(x, y) == IF Lt(x, y) THEN y ELSE x

\* Comparison of a possibly non-finite float with zero, as IEEE 754 does it
\* (every comparison with NaN is false).
GeqZero(x) == IF IsFinite(x) THEN x[1] >= 0 ELSE x = PosInf

\* ------------------------------------------------------------------ state

VARIABLES
    params,          \* the scalar attributes __init__ sets from its arguments
    mean_sea_level,  \* self._mean_sea_level
    at_node,         \* grid.at_node: field name -> the grid's array
    bound,           \* attribute -> "grid" while it refers to the grid's array
                     \* of its field, "own" once rebound to a fresh array
    own,             \* attribute -> the contents of its own array
    last             \* the most recent call and its min_depth argument

vars == << params, mean_sea_level, at_node, bound, own, last >>

\* The output fields of _info, and the attribute __init__ binds to each.
OutputFields ==
    { "water_depth", "fully_wet__depth", "veg_is_present", "vegetation",
      "roughness" }

Fields == OutputFields \cup { "topographic__elevation" }

Attrs ==
    { "_elev", "_water_depth", "_fully_wet_depth", "_veg_is_present",
      "_vegetation", "_roughness" }

FieldOf(a) ==
    CASE a = "_elev" -> "topographic__elevation"
      [] a = "_water_depth" -> "water_depth"
      [] a = "_fully_wet_depth" -> "fully_wet__depth"
      [] a = "_veg_is_present" -> "veg_is_present"
      [] a = "_vegetation" -> "vegetation"
      [] a = "_roughness" -> "roughness"

\* The component's mutable state as one value, so that the stages compose.
State ==
    [ mean_sea_level |-> mean_sea_level, at_node |-> at_node,
      bound |-> bound, own |-> own ]

\* The array attribute a refers to.
Deref(s, a) == IF s.bound[a] = "grid" THEN s.at_node[FieldOf(a)] ELSE s.own[a]

\* "self.a[...] = ...": writes into the array a refers to, whichever it is.
Store(s, a, arr) ==
    IF s.bound[a] = "grid"
    THEN [s EXCEPT !.at_node[FieldOf(a)] = arr]
    ELSE [s EXCEPT !.own[a] = arr]

\* "self.a = <expression>": a now refers to the expression's fresh array;
\* the array it referred to before is left as it was.
Rebind(s, a, arr) == [s EXCEPT !.bound[a] = "own", !.own[a] = arr]

\* ------------------------------------------------------------ construction

\* Default of get_water_depth's min_depth argument (0.01).
DefaultMinDepth == Rat(1, 100)

\* initialize_output_fields: a zero-filled array per output field, of the
\* field's dtype.
ZeroArray(f) ==
    IF f = "veg_is_present" THEN [i \in Nodes |-> FALSE]
    ELSE [i \in Nodes |-> Zero]

\* Mutant: the offset of the lower limit is 0.311 instead of 0.092.
min_elev_offset_mutant(tidal_range_for_veg) ==
    Neg(Sub(Mul(Rat(237, 1000), tidal_range_for_veg), Rat(311, 1000)))

min_elev_for_veg_growth(tidal_range_for_veg) ==
    Neg(Sub(Mul(Rat(237, 1000), tidal_range_for_veg), Rat(92, 1000)))

max_elev_for_veg_growth(tidal_range_for_veg) ==
    Div(tidal_range_for_veg, Rat(2, 1))

\* The scalar attributes after __init__.
Constructor(rel_sl_rise_rate, tidal_range, tidal_range_for_veg, roughness_with_veg, roughness_without_veg) ==
    [ rel_sl_rise_rate |-> rel_sl_rise_rate,
      tidal_range |-> tidal_range,
      tidal_range_for_veg |-> tidal_range_for_veg,
      tidal_half_range |-> Div(tidal_range, Rat(2, 1)),
      roughness_with_veg |-> roughness_with_veg,
      roughness_without_veg |-> roughness_without_veg,
      min_elev_for_veg_growth |-> min_elev_for_veg_growth(tidal_range_for_veg),
      max_elev_for_veg_growth |-> max_elev_for_veg_growth(tidal_range_for_veg) ]

\* ------------------------------------------------------------------ stages

depth_at_mean_high_water(elev_i, msl, half_range) ==
    Maximum(Add(Add(Neg(elev_i), msl), half_range), Zero)

\* 0.5 * (d + max(d - tidal_range, 0))
fully_wet_depth_of(d, tidal_range) ==
    Mul(Rat(1, 2), Add(d, Maximum(Sub(d, tidal_range), Zero)))

\* Mutant: the floor at min_depth is left out.
floor_dropped_mutant(x, min_depth) == x

\* x[x < min_depth] = min_depth, for one element
floor_at_min_depth(x, min_depth) == IF Lt(x, min_depth) THEN min_depth ELSE x

\* Mutant: the mask also takes the node exactly at mean high water.
above_or_at_mean_high_water_mutant(elev_i, msl, half_range) ==
    Leq(Add(msl, half_range), elev_i)

\* The mask of line 126: elev > mean_sea_level + tidal_half_range
above_mean_high_water(elev_i, msl, half_range) ==
    Gt(elev_i, Add(msl, half_range))

get_water_depth(s, p, min_depth) ==
    LET elev == Deref(s, "_elev")
        msl == s.mean_sea_level
        d == [i \in Nodes |->
                depth_at_mean_high_water(elev[i], msl, p.tidal_half_range)]
        s1 == Rebind(s, "_fully_wet_depth",
                     [i \in Nodes |-> fully_wet_depth_of(d[i], p.tidal_range)])
        s2 == Store(s1, "_fully_wet_depth",
                    [i \in Nodes |->
                       floor_at_min_depth(Deref(s1, "_fully_wet_depth")[i],
                                          min_depth)])
        s3 == Store(s2, "_water_depth", Deref(s2, "_fully_wet_depth"))
        s4 == Store(s3, "_water_depth",
                    [i \in Nodes |->
                       IF above_mean_high_water(Deref(s3, "_elev")[i], msl,
                                                p.tidal_half_range)
                       THEN Zero
                       ELSE Deref(s3, "_water_depth")[i]])
    IN  s4

height_above_msl(elev_i, msl) == Sub(elev_i, msl)

\* 4 * (h - max_elev) * (min_elev - h) / (min_elev - max_elev)**2
suitability(h, min_elev, max_elev) ==
    LET c == Sub(min_elev, max_elev)
    IN  Div(Mul(Mul(Rat(4, 1), Sub(h, max_elev)), Sub(min_elev, h)),
            Mul(c, c))

veg_present(h, min_elev) == Gt(h, min_elev)

\* Mutant: the first override zeroes the water depth instead of the vegetation.
update_vegetation_wrong_array_mutant(s, p) ==
    LET elev == Deref(s, "_elev")
        lo == p.min_elev_for_veg_growth
        hi == p.max_elev_for_veg_growth
        h == [i \in Nodes |-> height_above_msl(elev[i], s.mean_sea_level)]
        s1 == Store(s, "_veg_is_present",
                    [i \in Nodes |-> veg_present(h[i], lo)])
        s2 == Rebind(s1, "_vegetation",
                     [i \in Nodes |-> suitability(h[i], lo, hi)])
        s3 == Store(s2, "_water_depth",
                    [i \in Nodes |->
                       IF Gt(h[i], hi) THEN Zero
                       ELSE Deref(s2, "_water_depth")[i]])
        s4 == Store(s3, "_vegetation",
                    [i \in Nodes |->
                       IF Lt(h[i], lo) \/ Gt(h[i], hi) THEN Zero
                       ELSE Deref(s3, "_vegetation")[i]])
    IN  s4

update_vegetation(s, p) ==
    LET elev == Deref(s, "_elev")
        lo == p.min_elev_for_veg_growth
        hi == p.max_elev_for_veg_growth
        h == [i \in Nodes |-> height_above_msl(elev[i], s.mean_sea_level)]
        s1 == Store(s, "_veg_is_present",
                    [i \in Nodes |-> veg_present(h[i], lo)])
        s2 == Rebind(s1, "_vegetation",
                     [i \in Nodes |-> suitability(h[i], lo, hi)])
        s3 == Store(s2, "_vegetation",
                    [i \in Nodes |->
                       IF Gt(h[i], hi) THEN Zero
                       ELSE Deref(s2, "_vegetation")[i]])
        s4 == Store(s3, "_vegetation",
                    [i \in Nodes |->
                       IF Lt(h[i], lo) THEN Zero
                       ELSE Deref(s3, "_vegetation")[i]])
    IN  s4

\* Mutant: the vegetated nodes are not given roughness_with_veg.
update_roughness_unvegetated_mutant(s, p) ==
    Store(s, "_roughness", [i \in Nodes |-> p.roughness_without_veg])

update_roughness(s, p) ==
    LET s1 == Store(s, "_roughness",
                    [i \in Nodes |-> p.roughness_without_veg])
    IN  Store(s1, "_roughness",
              [i \in Nodes |->
                 IF Deref(s1, "_veg_is_present")[i]
                 THEN p.roughness_with_veg
                 ELSE Deref(s1, "_roughness")[i]])

\* Mutant: the increment is subtracted.
advance_sea_level_subtract_mutant(s, p, dt) ==
    [s EXCEPT !.mean_sea_level = Sub(@, Mul(p.rel_sl_rise_rate, dt))]

\* self._mean_sea_level += self._rel_sl_rise_rate * dt
advance_sea_level(s, p, dt) ==
    [s EXCEPT !.mean_sea_level = Add(@, Mul(p.rel_sl_rise_rate, dt))]

\* Mutant: the sea level is advanced after the three stages.
run_one_step_sea_level_last_mutant(s, p, dt) ==
    LET s1 == get_water_depth(s, p, DefaultMinDepth)
        s2 == update_vegetation(s1, p)
        s3 == update_roughness(s2, p)
    IN  advance_sea_level(s3, p, dt)

run_one_step(s, p, dt) ==
    LET s1 == advance_sea_level(s, p, dt)
        s2 == get_water_depth(s1, p, DefaultMinDepth)
        s3 == update_vegetation(s2, p)
    IN  update_roughness(s3, p)

\* ------------------------------------------------------------------ inputs

RateValues == { Rat(-1, 2), Rat(1, 2) }
TidalRangeValues == { Zero, Rat(31, 10) }
\* 92/737 is the tidal range for which both vegetation limits are 46/737.
TidalRangeForVegValues == { Zero, Rat(92, 737), Rat(31, 10) }
RoughnessPairs == { << Rat(1, 10), Rat(1, 50) >> }
\* Step lengths in days (dt >= 0).
DtValues == { Zero, Rat(1, 1) }
MinDepthValues == { Rat(-1, 4), DefaultMinDepth, Rat(1, 2) }

\* Node elevations: whole metres around sea level, and the two thresholds
\* of the configuration itself (the lower vegetation limit and mean high
\* water at construction).
ElevValues(p) ==
    { Rat(-1, 1), Rat(1, 1), Rat(2, 1) }
        \cup { p.min_elev_for_veg_growth, p.tidal_half_range }

WithinSeaLevelBound(msl) ==
    /\ Leq(msl, Rat(MaxSeaLevel, 1))
    /\ Leq(Rat(-MaxSeaLevel, 1), msl)

\* ----------------------------------------------------------------- actions

Commit(s) ==
    /\ mean_sea_level' = s.mean_sea_level
    /\ at_node' = s.at_node
    /\ bound' = s.bound
    /\ own' = s.own

Init ==
    /\ \E r \in RateValues, tr \in TidalRangeValues,
          trv \in TidalRangeForVegValues, rp \in RoughnessPairs :
          params = Constructor(r, tr, trv, rp[1], rp[2])
    /\ mean_sea_level = Zero
    /\ \E e \in [Nodes -> ElevValues(params)] :
          at_node = [f \in Fields |->
                        IF f = "topographic__elevation" THEN e
                        ELSE ZeroArray(f)]
    /\ bound = [a \in Attrs |-> "grid"]
    /\ own = [a \in Attrs |-> ZeroArray(FieldOf(a))]
    /\ last = [op |-> "__init__", min_depth |-> DefaultMinDepth]

GetWaterDepth ==
    \E md \in MinDepthValues :
        /\ Commit(get_water_depth(State, params, md))
        /\ last' = [op |-> "get_water_depth", min_depth |-> md]
        /\ UNCHANGED params

UpdateVegetation ==
    /\ Commit(update_vegetation(State, params))
    /\ last' = [op |-> "update_vegetation", min_depth |-> DefaultMinDepth]
    /\ UNCHANGED params

UpdateRoughness ==
    /\ Commit(update_roughness(State, params))
    /\ last' = [op |-> "update_roughness", min_depth |-> DefaultMinDepth]
    /\ UNCHANGED params

RunOneStep ==
    \E dt \in DtValues :
        /\ WithinSeaLevelBound(advance_sea_level(State, params, dt).mean_sea_level)
        /\ Commit(run_one_step(State, params, dt))
        /\ last' = [op |-> "run_one_step", min_depth |-> DefaultMinDepth]
        /\ UNCHANGED params

Next == GetWaterDepth \/ UpdateVegetation \/ UpdateRoughness \/ RunOneStep

Spec == Init /\ [][Next]_vars

\* --------------------------------------------------------------- observers

\* The arrays as the component sees them (through its attributes) ...
elevation == Deref(State, "_elev")
water_depth == Deref(State, "_water_depth")
fully_wet_depth == Deref(State, "_fully_wet_depth")
veg_is_present == Deref(State, "_veg_is_present")
vegetation == Deref(State, "_vegetation")
roughness == Deref(State, "_roughness")

\* ... and as a user of the grid sees them (through the field names).
GridField(f) == at_node[f]

AfterWaterDepth == last.op \in { "get_water_depth", "run_one_step" }
AfterVegetation == last.op \in { "update_vegetation", "run_one_step" }
AfterRoughness == last.op \in { "update_roughness", "run_one_step" }

\* What the stages are to compute for one node, written from the formulas
\* of the stages' contracts.
ExpectedFullyWet(elev_i, msl, tidal_range, min_depth) ==
    LET high == Maximum(Zero, Sub(Add(msl, Div(tidal_range, Rat(2, 1))), elev_i))
        low == Maximum(Zero, Sub(high, tidal_range))
    IN  Maximum(Div(Add(high, low), Rat(2, 1)), min_depth)

ExpectedWaterDepth(elev_i, msl, tidal_range, min_depth) ==
    IF Gt(elev_i, Add(msl, Div(tidal_range, Rat(2, 1))))
    THEN Zero
    ELSE ExpectedFullyWet(elev_i, msl, tidal_range, min_depth)

ExpectedVegetation(h, lo, hi) ==
    IF Gt(h, hi) \/ Lt(h, lo) THEN Zero
    ELSE Div(Mul(Rat(4, 1), Mul(Sub(h, hi), Sub(lo, h))),
             Mul(Sub(lo, hi), Sub(lo, hi)))

ExpectedRoughness(present) ==
    IF present THEN params.roughness_with_veg ELSE params.roughness_without_veg

\* x rounded to four decimal places, as a count of ten-thousandths.
RoundTo4(x) == (2 * 10000 * x[1] + x[2]) \div (2 * x[2])

\* ------------------------------------------------------------------ claims

\* C1: when run_one_step returns, for every node, veg_is_present,
\* vegetation and water_depth are the values derived from the node's
\* elevation and the sea level already advanced in this step, and roughness
\* corresponds to the veg_is_present computed in this same step.
C1_StepUsesAdvancedSeaLevel ==
    last.op = "run_one_step" =>
        \A i \in Nodes :
            LET h == Sub(elevation[i], mean_sea_level)
            IN  /\ veg_is_present[i] = Gt(h, params.min_elev_for_veg_growth)
                /\ vegetation[i] =
                       ExpectedVegetation(h, params.min_elev_for_veg_growth,
                                          params.max_elev_for_veg_growth)
                /\ water_depth[i] =
                       ExpectedWaterDepth(elevation[i], mean_sea_level,
                                          params.tidal_range, DefaultMinDepth)
                /\ roughness[i] = ExpectedRoughness(veg_is_present[i])

\* A step has returned after which some node's vegetation presence and
\* water depth both differ from what the sea level at construction gives.
C1_Witness ==
    /\ last.op = "run_one_step"
    /\ mean_sea_level # Zero
    /\ \E i \in Nodes :
          /\ veg_is_present[i] # Gt(elevation[i], params.min_elev_for_veg_growth)
          /\ roughness[i] = ExpectedRoughness(veg_is_present[i])
          /\ water_depth[i] #
                 ExpectedWaterDepth(elevation[i], Zero, params.tidal_range,
                                    DefaultMinDepth)

\* C2: after any stage, the grid's named field for each output of that
\* stage contains the values just computed.
C2_GridHoldsComputedValues ==
    /\ AfterWaterDepth =>
          /\ GridField("water_depth") = water_depth
          /\ GridField("fully_wet__depth") = fully_wet_depth
    /\ AfterVegetation =>
          /\ GridField("veg_is_present") = veg_is_present
          /\ GridField("vegetation") = vegetation
    /\ AfterRoughness => GridField("roughness") = roughness

\* C3 as stated: in every state, for every node, roughness is the
\* configured value that goes with veg_is_present.
C3_RoughnessMatchesVegetationAlways ==
    \A i \in Nodes : roughness[i] = ExpectedRoughness(veg_is_present[i])

\* C3 amended: whenever the most recent call is update_roughness or
\* run_one_step, for every node, roughness is roughness_with_veg if
\* veg_is_present is true and roughness_without_veg otherwise.
C3_RoughnessMatchesVegetationAfterUpdate ==
    AfterRoughness =>
        \A i \in Nodes : roughness[i] = ExpectedRoughness(veg_is_present[i])

\* update_roughness has just run on a grid with a vegetated and a bare node.
C3_Witness ==
    /\ last.op = "update_roughness"
    /\ \E i, j \in Nodes :
          /\ veg_is_present[i] /\ roughness[i] = params.roughness_with_veg
          /\ ~veg_is_present[j] /\ roughness[j] = params.roughness_without_veg

\* C4: after get_water_depth(min_depth), for every node, water_depth >= 0
\* and fully_wet_depth >= min_depth.
C4_DepthsAreFloored ==
    AfterWaterDepth =>
        \A i \in Nodes :
            /\ Leq(Zero, water_depth[i])
            /\ Leq(last.min_depth, fully_wet_depth[i])

\* get_water_depth has run with a positive min_depth; one node was raised
\* to the floor and another lies deeper.
C4_Witness ==
    /\ last.op = "get_water_depth"
    /\ Gt(last.min_depth, Zero)
    /\ \E i, j \in Nodes :
          /\ fully_wet_depth[i] = last.min_depth
          /\ depth_at_mean_high_water(elevation[i], mean_sea_level,
                                      params.tidal_half_range) = Zero
          /\ Gt(fully_wet_depth[j], last.min_depth)

\* C5: after get_water_depth, for every node, water_depth is 0 if the
\* elevation is strictly above mean sea level + tidal_range/2, and otherwise
\* equals fully_wet_depth of the same call: the mean of the high-tide depth
\* and the zero-floored low-tide depth, floored at min_depth.
C5_WaterDepthValue ==
    AfterWaterDepth =>
        \A i \in Nodes :
            /\ fully_wet_depth[i] =
                   ExpectedFullyWet(elevation[i], mean_sea_level,
                                    params.tidal_range, last.min_depth)
            /\ water_depth[i] =
                   IF Gt(elevation[i],
                         Add(mean_sea_level, Div(params.tidal_range, Rat(2, 1))))
                   THEN Zero
                   ELSE fully_wet_depth[i]

\* get_water_depth has run on a grid with one node above mean high water
\* (dry) and one node exactly at mean high water (wet, at the floor).
C5_Witness ==
    /\ last.op = "get_water_depth"
    /\ \E i, j \in Nodes :
          /\ Gt(elevation[i], Add(mean_sea_level, params.tidal_half_range))
          /\ water_depth[i] = Zero
          /\ elevation[j] = Add(mean_sea_level, params.tidal_half_range)
          /\ Gt(water_depth[j], Zero)

\* C6: after update_vegetation, for every node and every constructible
\* tidal_range_for_veg, vegetation is 0 where veg_is_present is false and
\* vegetation >= 0 where it is true.
C6_VegetationSign ==
    AfterVegetation =>
        \A i \in Nodes :
            IF veg_is_present[i]
            THEN GeqZero(vegetation[i])
            ELSE vegetation[i] = Zero

\* C7 as stated: mean_sea_level never decreases.
C7_SeaLevelNeverDecreases ==
    [][Leq(mean_sea_level, mean_sea_level')]_vars

\* C7 amended: mean_sea_level starts at 0; every call leaves it as it is or
\* adds exactly rel_sl_rise_rate * dt to it; and in a model constructed with
\* rel_sl_rise_rate >= 0 (stepped with dt >= 0) it never decreases.
C7_SeaLevelAdvance ==
    /\ mean_sea_level = Zero
    /\ [][ /\ \E dt \in DtValues :
                mean_sea_level' =
                    Add(mean_sea_level, Mul(params.rel_sl_rise_rate, dt))
           /\ last'.op # "run_one_step" => mean_sea_level' = mean_sea_level
           /\ Leq(Zero, params.rel_sl_rise_rate) =>
                  Leq(mean_sea_level, mean_sea_level')
         ]_vars

\* A model with a positive rise rate has been stepped and its sea level is
\* above zero.
C7_Witness ==
    /\ last.op = "run_one_step"
    /\ Gt(params.rel_sl_rise_rate, Zero)
    /\ Gt(mean_sea_level, Zero)

\* C8: no constructed model reaches update_vegetation with
\* min_elev == max_elev (such a configuration is rejected at construction).
C8_NoZeroDenominator ==
    AfterVegetation =>
        params.min_elev_for_veg_growth # params.max_elev_for_veg_growth

\* C9 as stated: with tidal_range_for_veg = 3.1, min_elev is -0.4237 to
\* four decimal places and max_elev is 1.55.
C9_DefaultBandAsStated ==
    params.tidal_range_for_veg = Rat(31, 10) =>
        /\ RoundTo4(params.min_elev_for_veg_growth) = -4237
        /\ params.max_elev_for_veg_growth = Rat(155, 100)

\* C9 amended: with tidal_range_for_veg = 3.1, min_elev is -0.6427 and
\* max_elev is 1.55, and after update_vegetation a node has veg_is_present
\* exactly when its height above mean sea level is greater than -0.6427 and
\* positive vegetation exactly when that height is strictly between -0.6427
\* and 1.55.
C9_DefaultBand ==
    params.tidal_range_for_veg = Rat(31, 10) =>
        /\ RoundTo4(params.min_elev_for_veg_growth) = -6427
        /\ params.max_elev_for_veg_growth = Rat(155, 100)
        /\ AfterVegetation =>
              \A i \in Nodes :
                  LET h == Sub(elevation[i], mean_sea_level)
                  IN  /\ veg_is_present[i] = Gt(h, Rat(-6427, 10000))
                      /\ Gt(vegetation[i], Zero) =
                             (Gt(h, Rat(-6427, 10000)) /\ Lt(h, Rat(155, 100)))

\* The default band has been applied to a node whose height above mean sea
\* level, -0.5, lies between -0.6427 and -0.4237: it carries vegetation.
C9_Witness ==
    /\ params.tidal_range_for_veg = Rat(31, 10)
    /\ AfterVegetation
    /\ \E i \in Nodes :
          /\ Sub(elevation[i], mean_sea_level) = Rat(-1, 2)
          /\ veg_is_present[i]
          /\ Gt(vegetation[i], Zero)

\* Attribute a's array and the grid's array of a's field are both left as
\* they are by the step.
Untouched(a) ==
    /\ Deref(State, a)' = Deref(State, a)
    /\ at_node'[FieldOf(a)] = at_node[FieldOf(a)]

\* C10: no operation modifies elevation; only run_one_step changes
\* mean_sea_level; get_water_depth leaves veg_is_present, vegetation and
\* roughness unchanged; update_vegetation leaves water_depth,
\* fully_wet_depth and roughness unchanged; update_roughness leaves
\* water_depth, fully_wet_depth, veg_is_present and vegetation unchanged;
\* and a second get_water_depth with the same min_depth yields the same
\* water_depth and fully_wet_depth.
C10_Frame ==
    [][ /\ Untouched("_elev")
        /\ last'.op # "run_one_step" => mean_sea_level' = mean_sea_level
        /\ last'.op = "get_water_depth" =>
              /\ Untouched("_veg_is_present")
              /\ Untouched("_vegetation")
              /\ Untouched("_roughness")
        /\ last'.op = "update_vegetation" =>
              /\ Untouched("_water_depth")
              /\ Untouched("_fully_wet_depth")
              /\ Untouched("_roughness")
        /\ last'.op = "update_roughness" =>
              /\ Untouched("_water_depth")
              /\ Untouched("_fully_wet_depth")
              /\ Untouched("_veg_is_present")
              /\ Untouched("_vegetation")
        /\ ( /\ last.op = "get_water_depth"
             /\ last'.op = "get_water_depth"
             /\ last'.min_depth = last.min_depth ) =>
              /\ water_depth' = water_depth
              /\ fully_wet_depth' = fully_wet_depth
      ]_vars

\* update_vegetation has just run on a grid on which a node above the upper
\* vegetation limit still holds the positive water depth and the vegetated
\* roughness that earlier stages gave it.
C10_Witness ==
    /\ last.op = "update_vegetation"
    /\ \E i \in Nodes :
          /\ Gt(Sub(elevation[i], mean_sea_level),
                params.max_elev_for_veg_growth)
          /\ Gt(water_depth[i], Zero)
          /\ Gt(fully_wet_depth[i], Zero)
          /\ roughness[i] = params.roughness_with_veg

====
